---- MODULE Spec2Model ----
(***************************************************************************)
(* PDFOCRExtractor (src/main.py): extract_text_from_image, process_pdf and *)
(* batch_process_pdfs as a state machine.                                  *)
(*                                                                         *)
(* Strings whose characters the code inspects (file names, OCR tokens) are *)
(* sequences of one-character strings.  The rasterizer (convert_from_path) *)
(* and the recognizer (pytesseract.image_to_data) are external: their      *)
(* outcomes are inputs, drawn from small sets.                             *)
(***************************************************************************)
EXTENDS Integers, Sequences, FiniteSets, TLC

\* ---------------------------------------------------------------- bounds
MaxEntries == 2     \* entries of the input directory
MaxTokens == 3      \* tokens of one raw recognizer output (SpecExtract)

\* ------------------------------------------------------- string helpers
Lower(c) ==
    CASE c = "A" -> "a" [] c = "P" -> "p" [] c = "D" -> "d" [] c = "F" -> "f"
      [] OTHER -> c

LowerStr(s) == [k \in 1..Len(s) |-> Lower(s[k])]

EndsWith(s, suffix) ==
    /\ Len(s) >= Len(suffix)
    /\ SubSeq(s, Len(s) - Len(suffix) + 1, Len(s)) = suffix

IsSpace(c) == c \in {" ", "\t", "\n"}

RECURSIVE LStrip(_)
LStrip(s) == IF s # <<>> /\ IsSpace(Head(s)) THEN LStrip(Tail(s)) ELSE s

RECURSIVE RStrip(_)
RStrip(s) ==
    IF s # <<>> /\ IsSpace(s[Len(s)]) THEN RStrip(SubSeq(s, 1, Len(s) - 1)) ELSE s

\* str.strip()
Strip(s) == RStrip(LStrip(s))

\* truth value of a Python str: non-empty
Truthy(s) == s # <<>>

\* ------------------------------------------------ extract_text_from_image
EmptyExtracted == [text |-> <<>>, confidence_scores |-> <<>>, word_boxes |-> <<>>]

WordBox(ocr, k) ==
    [left |-> ocr.left[k], top |-> ocr.top[k],
     width |-> ocr.width[k], height |-> ocr.height[k]]

\* a plausible slip: the confidence is appended outside the emptiness test
ExtractStepConfOutsideIf(ed, ocr, k) ==
    IF Truthy(Strip(ocr.text[k]))
    THEN [text |-> Append(ed.text, ocr.text[k]),
          confidence_scores |-> Append(ed.confidence_scores, ocr.conf[k]),
          word_boxes |-> Append(ed.word_boxes, WordBox(ocr, k))]
    ELSE [ed EXCEPT !.confidence_scores = Append(@, ocr.conf[k])]

\* a plausible slip: the stripped token is stored, and tested without strip
ExtractStepStoresStripped(ed, ocr, k) ==
    IF Truthy(ocr.text[k])
    THEN [text |-> Append(ed.text, Strip(ocr.text[k])),
          confidence_scores |-> Append(ed.confidence_scores, ocr.conf[k]),
          word_boxes |-> Append(ed.word_boxes, WordBox(ocr, k))]
    ELSE ed

\* one iteration of the loop over ocr_data['text'] (k is the 1-based index)
ExtractStep(ed, ocr, k) ==
    IF Truthy(Strip(ocr.text[k]))
    THEN [text |-> Append(ed.text, ocr.text[k]),
          confidence_scores |-> Append(ed.confidence_scores, ocr.conf[k]),
          word_boxes |-> Append(ed.word_boxes, WordBox(ocr, k))]
    ELSE ed

RECURSIVE ExtractLoop(_, _, _)
ExtractLoop(ed, ocr, k) ==
    IF k > Len(ocr.text) THEN ed ELSE ExtractLoop(ExtractStep(ed, ocr, k), ocr, k + 1)


\* pytesseract.image_to_data raised: the handler logs and re-raises.  A
\* plausible slip: the handler swallows the error and returns an empty page.
ExtractFromSwallowsError(rec) ==
    IF rec.ok THEN [ok |-> TRUE, data |-> ExtractLoop(EmptyExtracted, rec.data, 1)]
    ELSE [ok |-> TRUE, data |-> EmptyExtracted]

\* extract_text_from_image on the recognizer outcome rec = [ok, data]:
\* ok = FALSE in the result stands for the re-raised exception
ExtractFrom(rec) ==
    IF rec.ok THEN [ok |-> TRUE, data |-> ExtractLoop(EmptyExtracted, rec.data, 1)]
    ELSE [ok |-> FALSE, data |-> EmptyExtracted]

\* ---------------------------------------------------- external collaborators
NoOcr == [text |-> <<>>, conf |-> <<>>, left |-> <<>>, top |-> <<>>,
          width |-> <<>>, height |-> <<>>]

\* pytesseract.image_to_data(image, output_type=DICT) on the page images used
\* below: "hello" has an empty token between two words, "blank" has only
\* empty and whitespace tokens, on "bad" the engine raises
Recognize(image) ==
    CASE image = "hello" ->
           [ok |-> TRUE,
            data |-> [text |-> << <<"H","e","l","l","o">>, <<>>, <<" ","W","o","r","l","d">> >>,
                      conf |-> <<92, 10, 88>>,
                      left |-> <<5, 0, 60>>, top |-> <<7, 0, 8>>,
                      width |-> <<40, 0, 45>>, height |-> <<12, 0, 13>>]]
      [] image = "blank" ->
           [ok |-> TRUE,
            data |-> [text |-> << <<>>, <<" ">>, <<"\t"," ">> >>,
                      conf |-> <<-1, -1, 95>>,
                      left |-> <<0, 1, 2>>, top |-> <<0, 1, 2>>,
                      width |-> <<100, 3, 4>>, height |-> <<200, 5, 6>>]]
      [] OTHER -> [ok |-> FALSE, data |-> NoOcr]

Images == {"hello", "blank", "bad"}

\* convert_from_path(pdf_path) by the content of the file at pdf_path
Rasterize(doc) ==
    CASE doc = "empty"   -> [ok |-> TRUE, images |-> <<>>]
      [] doc = "good"    -> [ok |-> TRUE, images |-> <<"hello", "blank">>]
      [] doc = "badpage" -> [ok |-> TRUE, images |-> <<"hello", "bad", "hello">>]
      [] OTHER           -> [ok |-> FALSE, images |-> <<>>]

Docs == {"corrupt", "empty", "good", "badpage"}

\* names os.listdir(input_dir) may return
Names ==
    { <<"a", ".", "p", "d", "f">>,
      <<"a", ".", "P", "D", "F">>,
      <<"b", ".", "c", ".", "P", "d", "f">>,
      <<".", "p", "d", "f">>,
      <<"n", "p", "d", "f">> }

DotPdf == <<".", "p", "d", "f">>
DotJson == <<".", "j", "s", "o", "n">>

\* a plausible slip: the suffix test without .lower()
IsPdfNameCaseSensitive(filename) == EndsWith(filename, DotPdf)

\* filename.lower().endswith('.pdf')
IsPdfName(filename) == EndsWith(LowerStr(filename), DotPdf)

\* index of the last "." of p, 0 if none (str.rfind)
LastDot(p) ==
    IF \E k \in 1..Len(p) : p[k] = "."
    THEN CHOOSE k \in 1..Len(p) : p[k] = "." /\ \A j \in (k + 1)..Len(p) : p[j] # "."
    ELSE 0

\* os.path.splitext(p)[0] for a name without directory separators: the part
\* before the last dot, unless only dots precede that dot (a leading-dot
\* name has no extension)
SplitextRoot(p) ==
    LET d == LastDot(p) IN
    IF d > 0 /\ \E k \in 1..(d - 1) : p[k] # "." THEN SubSeq(p, 1, d - 1) ELSE p

\* f"{os.path.splitext(filename)[0]}.json"
OutputName(filename) == SplitextRoot(filename) \o DotJson

\* os.path.join(dir, name) and os.path.basename(path)
Join(dir, name) == [dir |-> dir, name |-> name]
Basename(path) == path.name

OutNames == {OutputName(n) : n \in Names}

\* ------------------------------------------------------------ JSON output
EmptyPage == [page_number |-> 0, extracted_data |-> EmptyExtracted]
Chunk(key, name, num, page) == [key |-> key, name |-> name, num |-> num, page |-> page]

\* json.dump(result, f, ...): the text written, as the pieces it is made of
\* in the order they are written
Serialize(result) ==
    << Chunk("filename", result.filename, 0, EmptyPage),
       Chunk("processed_date", <<>>, result.processed_date, EmptyPage),
       Chunk("total_pages", <<>>, result.total_pages, EmptyPage) >>
    \o [k \in 1..Len(result.pages) |-> Chunk("page", <<>>, 0, result.pages[k])]

NoFile == [exists |-> FALSE, chunks |-> <<>>]

\* ------------------------------------------------------------------ state
VARIABLES
    entries,        \* os.listdir(input_dir) in enumeration order, with each file's content
    outDirExists,   \* output_dir exists
    files,          \* content of output_dir, by file name
    pc,             \* position of batch_process_pdfs / process_pdf
    run,            \* which batch_process_pdfs call on these directories this is
    idx,            \* entries the for loop has taken so far
    results,        \* results of batch_process_pdfs
    calls,          \* the process_pdf calls of this batch call, with their outcome
    pdf_path, output_path, images, result,   \* locals of the process_pdf call
    recognized,     \* images the current process_pdf call has passed to the recognizer
    now,            \* datetime.now()
    log,            \* records given to self.logger in this batch call
    snapshot,       \* content of output_dir when the previous batch call returned
    ocr_in,         \* what the recognizer answers to extract_text_from_image
    pcE, ocr_data, i, extracted_data         \* extract_text_from_image, stepwise

vars == << entries, outDirExists, files, pc, run, idx, results, calls, pdf_path,
           output_path, images, result, recognized, now, log, snapshot,
           ocr_in, pcE, ocr_data, i, extracted_data >>

batchVars == << entries, outDirExists, files, pc, run, idx, results, calls, pdf_path,
                output_path, images, result, recognized, now, log, snapshot >>
extractVars == << ocr_in, pcE, ocr_data, i, extracted_data >>

InputDir == "input_dir"
OutputDir == "output_dir"
NoPath == Join("", <<>>)
NoResult == [filename |-> <<>>, processed_date |-> 0, total_pages |-> 0, pages |-> <<>>]

SeqsUpTo(S, n) == UNION {[1..m -> S] : m \in 0..n}

\* directory listings: names are unique within a directory
Listings ==
    { e \in SeqsUpTo([name : Names, doc : Docs], MaxEntries) :
        \A j, k \in 1..Len(e) : j # k => e[j].name # e[k].name }

InitBatchVars ==
    /\ entries \in Listings
    /\ outDirExists \in BOOLEAN
    /\ files = [o \in OutNames |-> NoFile]
    /\ pc = "start"
    /\ run = 1
    /\ idx = 0
    /\ results = <<>>
    /\ calls = <<>>
    /\ pdf_path = NoPath
    /\ output_path = NoPath
    /\ images = <<>>
    /\ result = NoResult
    /\ recognized = <<>>
    /\ now = 0
    /\ log = <<>>
    /\ snapshot = [o \in OutNames |-> NoFile]

Init ==
    /\ InitBatchVars
    /\ ocr_in = [ok |-> FALSE, data |-> NoOcr]
    /\ pcE = "idle"
    /\ ocr_data = NoOcr
    /\ i = 0
    /\ extracted_data = EmptyExtracted

LogRec(level, msg, name, num) == [level |-> level, msg |-> msg, name |-> name, num |-> num]

SetLast(s, v) == [s EXCEPT ![Len(s)] = v]

\* ------------------------------------------------- batch_process_pdfs
\* os.makedirs(output_dir, exist_ok=True); results = []
BatchStart ==
    /\ pc = "start"
    /\ outDirExists' = TRUE
    /\ results' = <<>>
    /\ idx' = 0
    /\ pc' = "loop"
    /\ UNCHANGED << entries, files, run, calls, pdf_path, output_path, images, result,
                    recognized, now, log, snapshot, extractVars >>

\* an entry the suffix test rejects
BatchSkip ==
    /\ pc = "loop"
    /\ idx < Len(entries)
    /\ ~IsPdfName(entries[idx + 1].name)
    /\ idx' = idx + 1
    /\ UNCHANGED << entries, outDirExists, files, pc, run, results, calls, pdf_path,
                    output_path, images, result, recognized, now, log, snapshot,
                    extractVars >>

\* an entry the suffix test selects: process_pdf(pdf_path, output_path) is called
BatchCall ==
    /\ pc = "loop"
    /\ idx < Len(entries)
    /\ LET filename == entries[idx + 1].name IN
       /\ IsPdfName(filename)
       /\ pdf_path' = Join(InputDir, filename)
       /\ output_path' = Join(OutputDir, OutputName(filename))
       /\ calls' = Append(calls, [pdf_path |-> Join(InputDir, filename),
                                  output_path |-> Join(OutputDir, OutputName(filename)),
                                  outcome |-> "running", err |-> ""])
    /\ idx' = idx + 1
    /\ images' = <<>>
    /\ result' = NoResult
    /\ recognized' = <<>>
    /\ pc' = "convert"
    /\ UNCHANGED << entries, outDirExists, files, run, results, now, log, snapshot,
                    extractVars >>

\* a plausible slip: no handler around the process_pdf call, the batch aborts
AfterProcessRaisedAborts(err, lg) ==
    /\ calls' = SetLast(calls, [calls[Len(calls)] EXCEPT !.outcome = "raised", !.err = err])
    /\ log' = lg
    /\ pc' = "aborted"
    /\ UNCHANGED results

\* except Exception as e: log the filename and the error; continue
AfterProcessRaised(err, lg) ==
    /\ calls' = SetLast(calls, [calls[Len(calls)] EXCEPT !.outcome = "raised", !.err = err])
    /\ log' = Append(lg, LogRec("ERROR", "Error processing", entries[idx].name, 0))
    /\ pc' = "loop"
    /\ UNCHANGED results

\* result = self.process_pdf(...); results.append(result)
AfterProcessReturned(res, lg) ==
    /\ calls' = SetLast(calls, [calls[Len(calls)] EXCEPT !.outcome = "returned"])
    /\ log' = lg
    /\ results' = Append(results, res)
    /\ pc' = "loop"

\* return results
BatchReturn ==
    /\ pc = "loop"
    /\ idx = Len(entries)
    /\ pc' = "done"
    /\ UNCHANGED << entries, outDirExists, files, run, idx, results, calls, pdf_path,
                    output_path, images, result, recognized, now, log, snapshot,
                    extractVars >>

\* the caller runs batch_process_pdfs a second time on the same, unchanged
\* directories
Rerun ==
    /\ pc = "done"
    /\ run = 1
    /\ run' = run + 1
    /\ snapshot' = files
    /\ pc' = "start"
    /\ idx' = 0
    /\ results' = <<>>
    /\ calls' = <<>>
    /\ log' = <<>>
    /\ pdf_path' = NoPath
    /\ output_path' = NoPath
    /\ images' = <<>>
    /\ result' = NoResult
    /\ recognized' = <<>>
    /\ UNCHANGED << entries, outDirExists, files, now, extractVars >>

\* ------------------------------------------------------------ process_pdf
\* the handler of process_pdf's try block: the error is not swallowed, it
\* reaches the caller of process_pdf
ProcessPdfExcept(err, lg) == AfterProcessRaised(err, lg)

\* a plausible slip: total_pages counts from one
NewResultOffByOne(path, t, imgs) ==
    [filename |-> Basename(path), processed_date |-> t,
     total_pages |-> Len(imgs) + 1, pages |-> <<>>]

\* result = {"filename": ..., "processed_date": ..., "total_pages": ..., "pages": []}
NewResult(path, t, imgs) ==
    [filename |-> Basename(path), processed_date |-> t,
     total_pages |-> Len(imgs), pages |-> <<>>]

\* result["pages"].append({"page_number": i + 1, "extracted_data": page_data});
\* k is the 0-based index of enumerate(images)
AppendPage(res, k, page_data) ==
    [res EXCEPT !.pages = Append(@, [page_number |-> k + 1, extracted_data |-> page_data])]

\* a plausible slip: the output file is opened before the pages are extracted
ConvertOkOpensFirst ==
    /\ pc = "convert"
    /\ LET r == Rasterize(entries[idx].doc) IN
       /\ r.ok
       /\ images' = r.images
       /\ result' = NewResult(pdf_path, now, r.images)
    /\ files' = [files EXCEPT ![output_path.name] = [exists |-> TRUE, chunks |-> <<>>]]
    /\ now' = now + 1
    /\ log' = Append(log, LogRec("INFO", "Converting PDF to images", Basename(pdf_path), 0))
    /\ pc' = "pages"
    /\ UNCHANGED << entries, outDirExists, run, idx, results, calls, pdf_path,
                    output_path, recognized, snapshot, extractVars >>

\* images = self.convert_pdf_to_images(pdf_path) returns; result is built
ConvertOk ==
    /\ pc = "convert"
    /\ LET r == Rasterize(entries[idx].doc) IN
       /\ r.ok
       /\ images' = r.images
       /\ result' = NewResult(pdf_path, now, r.images)
    /\ now' = now + 1
    /\ log' = Append(log, LogRec("INFO", "Converting PDF to images", Basename(pdf_path), 0))
    /\ pc' = "pages"
    /\ UNCHANGED << entries, outDirExists, files, run, idx, results, calls, pdf_path,
                    output_path, recognized, snapshot, extractVars >>

\* convert_from_path raises: convert_pdf_to_images logs and re-raises
ConvertFail ==
    /\ pc = "convert"
    /\ ~Rasterize(entries[idx].doc).ok
    /\ ProcessPdfExcept("RasterizationError",
          log \o << LogRec("INFO", "Converting PDF to images", Basename(pdf_path), 0),
                    LogRec("ERROR", "Error converting PDF to images", <<>>, 0) >>)
    /\ UNCHANGED << entries, outDirExists, files, run, idx, pdf_path, output_path,
                    images, result, recognized, now, snapshot, extractVars >>

\* one iteration of the loop over images, the extraction succeeds
PageOk ==
    /\ pc = "pages"
    /\ Len(result.pages) < Len(images)
    /\ LET k == Len(result.pages)
           r == ExtractFrom(Recognize(images[k + 1])) IN
       /\ r.ok
       /\ result' = AppendPage(result, k, r.data)
       /\ recognized' = Append(recognized, images[k + 1])
       /\ log' = Append(log, LogRec("INFO", "Processing page", <<>>, k + 1))
    /\ UNCHANGED << entries, outDirExists, files, pc, run, idx, results, calls, pdf_path,
                    output_path, images, now, snapshot, extractVars >>

\* one iteration of the loop over images, extract_text_from_image raises
PageFail ==
    /\ pc = "pages"
    /\ Len(result.pages) < Len(images)
    /\ LET k == Len(result.pages)
           r == ExtractFrom(Recognize(images[k + 1])) IN
       /\ ~r.ok
       /\ recognized' = Append(recognized, images[k + 1])
       /\ ProcessPdfExcept("RecognitionError",
             log \o << LogRec("INFO", "Processing page", <<>>, k + 1),
                       LogRec("ERROR", "Error extracting text from image", <<>>, 0) >>)
    /\ UNCHANGED << entries, outDirExists, files, run, idx, pdf_path, output_path,
                    images, result, now, snapshot, extractVars >>

\* open(output_path, 'w', encoding='utf-8') creates or truncates the file
OpenOk ==
    /\ pc = "pages"
    /\ Len(result.pages) = Len(images)
    /\ files' = [files EXCEPT ![output_path.name] = [exists |-> TRUE, chunks |-> <<>>]]
    /\ pc' = "dump"
    /\ UNCHANGED << entries, outDirExists, run, idx, results, calls, pdf_path, output_path,
                    images, result, recognized, now, log, snapshot, extractVars >>

\* open raises (permission, missing directory): nothing is created or changed
OpenFail ==
    /\ pc = "pages"
    /\ Len(result.pages) = Len(images)
    /\ ProcessPdfExcept("PersistenceError", log)
    /\ UNCHANGED << entries, outDirExists, files, run, idx, pdf_path, output_path,
                    images, result, recognized, now, snapshot, extractVars >>

\* json.dump writes the whole text, the file is closed, the result returned
DumpOk ==
    /\ pc = "dump"
    /\ files' = [files EXCEPT ![output_path.name] =
                    [exists |-> TRUE, chunks |-> Serialize(result)]]
    /\ AfterProcessReturned(result,
          Append(log, LogRec("INFO", "Results saved to", output_path.name, 0)))
    /\ UNCHANGED << entries, outDirExists, run, idx, pdf_path, output_path, images,
                    result, recognized, now, snapshot, extractVars >>

\* a write raises (disk full, I/O error) after n pieces of the text: the with
\* block closes the file, which keeps what was written
DumpFail ==
    /\ pc = "dump"
    /\ \E n \in 0..(Len(Serialize(result)) - 1) :
          files' = [files EXCEPT ![output_path.name] =
                       [exists |-> TRUE, chunks |-> SubSeq(Serialize(result), 1, n)]]
    /\ ProcessPdfExcept("PersistenceError", log)
    /\ UNCHANGED << entries, outDirExists, run, idx, pdf_path, output_path, images,
                    result, recognized, now, snapshot, extractVars >>

Next ==
    \/ BatchStart
    \/ BatchSkip
    \/ BatchCall
    \/ ConvertOk
    \/ ConvertFail
    \/ PageOk
    \/ PageFail
    \/ OpenOk
    \/ OpenFail
    \/ DumpOk
    \/ DumpFail
    \/ BatchReturn

\* one batch_process_pdfs call
Spec == Init /\ [][Next]_vars

NextRerun ==
    \/ Next
    \/ Rerun

\* two successive batch_process_pdfs calls
SpecRerun == Init /\ [][NextRerun]_vars

\* ------------------------------------- extract_text_from_image, stepwise
Tokens == { <<>>, <<" ">>, <<"H">>, <<" ", "W", "\t">> }
Confs == {-1, 92}
Lefts == {0, 7}

RawData(t, c, l) ==
    [text |-> t, conf |-> c, left |-> l,
     top |-> [k \in 1..Len(t) |-> 10 + k],
     width |-> [k \in 1..Len(t) |-> 20 + k],
     height |-> [k \in 1..Len(t) |-> 30 + k]]

\* what the recognizer may answer: it raises, or returns index-aligned sequences
IsRawOutput(r) ==
    \/ r = [ok |-> FALSE, data |-> NoOcr]
    \/ \E n \in 0..MaxTokens :
          \E t \in [1..n -> Tokens], c \in [1..n -> Confs], l \in [1..n -> Lefts] :
             r = [ok |-> TRUE, data |-> RawData(t, c, l)]

InitExtract ==
    /\ entries = <<>>
    /\ outDirExists = FALSE
    /\ files = [o \in OutNames |-> NoFile]
    /\ pc = "idle"
    /\ run = 1
    /\ idx = 0
    /\ results = <<>>
    /\ calls = <<>>
    /\ pdf_path = NoPath
    /\ output_path = NoPath
    /\ images = <<>>
    /\ result = NoResult
    /\ recognized = <<>>
    /\ now = 0
    /\ log = <<>>
    /\ snapshot = [o \in OutNames |-> NoFile]
    /\ IsRawOutput(ocr_in)
    /\ pcE = "call"
    /\ ocr_data = NoOcr
    /\ i = 0
    /\ extracted_data = EmptyExtracted

\* ocr_data = pytesseract.image_to_data(...) returns; extracted_data is built empty
ExtractCallOk ==
    /\ pcE = "call"
    /\ ocr_in.ok
    /\ ocr_data' = ocr_in.data
    /\ extracted_data' = EmptyExtracted
    /\ i' = 0
    /\ pcE' = "loop"
    /\ UNCHANGED << batchVars, ocr_in >>

\* the recognizer raises: logged and re-raised
ExtractCallFail ==
    /\ pcE = "call"
    /\ ~ocr_in.ok
    /\ pcE' = "raised"
    /\ UNCHANGED << batchVars, ocr_in, ocr_data, i, extracted_data >>

\* for i, text in enumerate(ocr_data['text']): one iteration
ExtractIter ==
    /\ pcE = "loop"
    /\ i < Len(ocr_data.text)
    /\ extracted_data' = ExtractStep(extracted_data, ocr_data, i + 1)
    /\ i' = i + 1
    /\ UNCHANGED << batchVars, ocr_in, pcE, ocr_data >>

\* return extracted_data
ExtractReturn ==
    /\ pcE = "loop"
    /\ i = Len(ocr_data.text)
    /\ pcE' = "returned"
    /\ UNCHANGED << batchVars, ocr_in, ocr_data, i, extracted_data >>

NextExtract ==
    \/ ExtractCallOk
    \/ ExtractCallFail
    \/ ExtractIter
    \/ ExtractReturn

SpecExtract == InitExtract /\ [][NextExtract]_vars

\* ------------------------------------------------- PageExtractor claims
HasVisibleChar(t) == \E j \in 1..Len(t) : ~IsSpace(t[j])

\* the indices among 1..upto of the tokens that have a non-whitespace character
AcceptedSet(ocr, upto) == {k \in 1..upto : HasVisibleChar(ocr.text[k])}

\* the same indices in increasing order
AcceptedSeq(ocr, upto) ==
    LET A == AcceptedSet(ocr, upto) IN
    CHOOSE f \in [1..Cardinality(A) -> A] :
        \A j, k \in 1..Cardinality(A) : j < k => f[j] < f[k]

\* C2: the PageResult returned by extract is exactly the subsequence of the
\* raw output at the indices whose token is non-empty after stripping, in
\* recognition order, with the unstripped token, its confidence and the box
\* built from left/top/width/height at that index; no element of text is
\* empty or whitespace-only.
C2_ExtractIsFilteredSubsequence ==
    pcE = "returned" =>
        LET ocr == ocr_in.data
            acc == AcceptedSeq(ocr, Len(ocr.text))
        IN  /\ Len(extracted_data.text) = Len(acc)
            /\ Len(extracted_data.confidence_scores) = Len(acc)
            /\ Len(extracted_data.word_boxes) = Len(acc)
            /\ \A j \in 1..Len(acc) :
                  /\ extracted_data.text[j] = ocr.text[acc[j]]
                  /\ extracted_data.confidence_scores[j] = ocr.conf[acc[j]]
                  /\ extracted_data.word_boxes[j].left = ocr.left[acc[j]]
                  /\ extracted_data.word_boxes[j].top = ocr.top[acc[j]]
                  /\ extracted_data.word_boxes[j].width = ocr.width[acc[j]]
                  /\ extracted_data.word_boxes[j].height = ocr.height[acc[j]]
                  /\ HasVisibleChar(extracted_data.text[j])

\* extract has returned on an output whose first token is whitespace-only and
\* whose two other tokens are the same padded word, one of undetermined
\* confidence: both are kept, unstripped
C2_Witness ==
    /\ pcE = "returned"
    /\ Len(ocr_in.data.text) = 3
    /\ ocr_in.data.text[1] = <<" ">>
    /\ extracted_data.text = << <<" ", "W", "\t">>, <<" ", "W", "\t">> >>
    /\ extracted_data.confidence_scores = <<-1, 92>>

\* C3: at every step of the construction of a PageResult and on return, text,
\* confidence_scores and word_boxes have equal length and index j of each
\* refers to one and the same recognized token.
C3_SequencesAligned ==
    /\ Len(extracted_data.text) = Len(extracted_data.confidence_scores)
    /\ Len(extracted_data.text) = Len(extracted_data.word_boxes)
    /\ \A j \in 1..Len(extracted_data.text) :
          \E k \in 1..i :
             /\ extracted_data.text[j] = ocr_data.text[k]
             /\ extracted_data.confidence_scores[j] = ocr_data.conf[k]
             /\ extracted_data.word_boxes[j] = WordBox(ocr_data, k)

\* in the middle of the construction: two tokens seen, the first dropped, the
\* second accepted, a third still to come
C3_Witness ==
    /\ pcE = "loop"
    /\ i = 2
    /\ Len(ocr_data.text) = 3
    /\ ~HasVisibleChar(ocr_data.text[1])
    /\ Len(extracted_data.text) = 1
    /\ Len(extracted_data.word_boxes) = 1

\* ----------------------------------------- DocumentProcessor / batch claims
Returned(c) == c.outcome = "returned"
Raised(c) == c.outcome = "raised"
LastCall == calls[Len(calls)]

\* the content of the input file called name
DocOf(name) == entries[CHOOSE k \in 1..Len(entries) : entries[k].name = name].doc

PageFails(image) == ~Recognize(image).ok

\* C1: batchProcess never aborts because of one file's failure; what it
\* returns holds exactly one DocumentResult per selected file whose process
\* call succeeded, none for a file whose call failed, in enumeration order.
C1_BatchIsolatesFailures ==
    /\ pc # "aborted"
    /\ pc \in {"loop", "done"} =>
          LET ok == SelectSeq(calls, Returned) IN
          /\ Len(results) = Len(ok)
          /\ \A j \in 1..Len(ok) :
                /\ results[j].filename = Basename(ok[j].pdf_path)
                /\ Rasterize(DocOf(results[j].filename)).ok
                /\ \A k \in 1..Len(results[j].pages) :
                      ~PageFails(Rasterize(DocOf(results[j].filename)).images[k])

\* the batch has returned after a failed call followed by a successful one
C1_Witness ==
    /\ pc = "done"
    /\ Len(calls) = 2
    /\ Raised(calls[1])
    /\ Returned(calls[2])
    /\ Len(results) = 1
    /\ results[1].filename = Basename(calls[2].pdf_path)

\* C4: every DocumentResult returned by process has total_pages = len(pages) =
\* number of rasterized images, page numbers exactly 1..total_pages in order,
\* page k holding the extraction of the k-th image; a document of zero images
\* gives total_pages = 0 and pages = [] without error.
C4_PagesMatchImages ==
    \A j \in 1..Len(results) :
        LET r == results[j]
            imgs == Rasterize(DocOf(r.filename)).images
        IN  /\ r.total_pages = Len(r.pages)
            /\ Len(r.pages) = Len(imgs)
            /\ \A k \in 1..Len(r.pages) :
                  /\ r.pages[k].page_number = k
                  /\ r.pages[k].extracted_data =
                        ExtractLoop(EmptyExtracted, Recognize(imgs[k]).data, 1)

\* a zero-page result and a two-page result have been returned; page 1 of the
\* latter is the extraction of tokens "Hello", "", " World"
C4_Witness ==
    /\ Len(results) = 2
    /\ results[1].total_pages = 0
    /\ results[1].pages = <<>>
    /\ results[2].total_pages = 2
    /\ results[2].pages[1].page_number = 1
    /\ results[2].pages[1].extracted_data.text =
          << <<"H", "e", "l", "l", "o">>, <<" ", "W", "o", "r", "l", "d">> >>
    /\ results[2].pages[1].extracted_data.confidence_scores = <<92, 88>>
    /\ Len(results[2].pages[1].extracted_data.word_boxes) = 2
    /\ results[2].pages[2].page_number = 2
    /\ results[2].pages[2].extracted_data = EmptyExtracted

FirstFailing(imgs) ==
    CHOOSE k \in 1..Len(imgs) :
        PageFails(imgs[k]) /\ \A j \in 1..(k - 1) : ~PageFails(imgs[j])

\* C5: within one process call the first page whose extraction fails aborts
\* the document: the error reaches the caller, no later page is passed to the
\* recognizer, and no DocumentResult is returned.
C5_FirstFailingPageAborts ==
    (/\ Len(calls) > 0
     /\ LastCall.outcome # "running"
     /\ \E k \in 1..Len(images) : PageFails(images[k]))
    => /\ Raised(LastCall)
       /\ LastCall.err = "RecognitionError"
       /\ recognized = SubSeq(images, 1, FirstFailing(images))
       /\ Len(results) = Len(SelectSeq(calls, Returned))
       /\ \A j \in 1..Len(results) : results[j].filename # Basename(LastCall.pdf_path)

\* a three-page document whose second page failed: the call raised after two
\* recognizer calls
C5_Witness ==
    /\ Len(calls) > 0
    /\ Raised(LastCall)
    /\ LastCall.err = "RecognitionError"
    /\ Len(images) = 3
    /\ recognized = <<"hello", "bad">>

\* C6: the output file of a document is created or written only after every
\* page of that document has been extracted successfully; a document that
\* fails before that leaves its output path untouched.
C6_WriteOnlyAfterAllPages ==
    [][files' # files =>
          /\ pc \in {"pages", "dump"}
          /\ Len(result.pages) = Len(images)
          /\ \A k \in 1..Len(images) : ~PageFails(images[k])
          /\ \A o \in OutNames : o # output_path.name => files'[o] = files[o]]_vars

\* a document failed during extraction while a complete file, written for an
\* earlier document, sits at its output path
C6_Witness ==
    /\ pc = "loop"
    /\ Len(calls) = 2
    /\ Raised(LastCall)
    /\ LastCall.err = "RecognitionError"
    /\ files[output_path.name].exists
    /\ Len(files[output_path.name].chunks) > 0

\* a file that holds a whole serialized DocumentResult: the three header
\* pieces and as many page pieces as total_pages says
IsComplete(f) ==
    /\ f.exists
    /\ Len(f.chunks) >= 3
    /\ Len(f.chunks) = 3 + f.chunks[3].num

\* the pages a reader of the file gets: none from an absent file, a parse
\* error from a file that is not a whole JSON document
PagesContent(f) ==
    IF ~f.exists THEN [kind |-> "absent", pages |-> <<>>]
    ELSE IF IsComplete(f)
         THEN [kind |-> "json", pages |-> [k \in 1..(Len(f.chunks) - 3) |-> f.chunks[k + 3].page]]
         ELSE [kind |-> "invalid", pages |-> <<>>]

\* C7: persistence is atomic per document: when writing the output file
\* fails, process fails and the output path holds either no file or a complete
\* serialized DocumentResult, never partial content.
C7_PersistenceAtomic ==
    (/\ Len(calls) > 0
     /\ Raised(LastCall)
     /\ LastCall.err = "PersistenceError")
    => \/ ~files[LastCall.output_path.name].exists
       \/ IsComplete(files[LastCall.output_path.name])

\* C8: after batchProcess on an absent or empty outputDir, outputDir exists
\* and contains one <basename>.json per successfully processed input file and
\* no .json for an input file whose processing failed (a failed input whose
\* output name is also that of a successful input, a.PDF beside a.pdf, is not
\* held against the claim).
C8_OutputDirMatchesSuccesses ==
    (pc = "done" /\ run = 1) =>
        /\ outDirExists
        /\ \A j \in 1..Len(calls) :
              /\ Returned(calls[j]) => IsComplete(files[calls[j].output_path.name])
              /\ Raised(calls[j]) =>
                    \/ ~files[calls[j].output_path.name].exists
                    \/ \E k \in 1..Len(calls) :
                          /\ Returned(calls[k])
                          /\ calls[k].output_path = calls[j].output_path
        /\ \A o \in OutNames :
              files[o].exists =>
                 \E j \in 1..Len(calls) : Returned(calls[j]) /\ calls[j].output_path.name = o

\* C9: running batchProcess twice on an unchanged input directory leaves every
\* output file with the same pages content after the second run as after the
\* first.
C9_RerunKeepsPages ==
    (pc = "done" /\ run = 2) =>
        \A o \in OutNames :
            snapshot[o].exists => PagesContent(files[o]) = PagesContent(snapshot[o])

\* ---------------------------------------------------------- C10
\* the name ends in .pdf, the letters in either case
HasPdfSuffix(name) ==
    /\ Len(name) >= 4
    /\ name[Len(name) - 3] = "."
    /\ name[Len(name) - 2] \in {"p", "P"}
    /\ name[Len(name) - 1] \in {"d", "D"}
    /\ name[Len(name)] \in {"f", "F"}

SelectedEntry(e) == HasPdfSuffix(e.name)

\* the name with its last four characters, the .pdf suffix, replaced by .json
ReplaceSuffix(name) == SubSeq(name, 1, Len(name) - 4) \o DotJson

\* what precedes the .pdf suffix is empty or made of dots only
OnlyDotsBeforeSuffix(name) == \A k \in 1..(Len(name) - 4) : name[k] = "."

\* the calls made so far are those for the selected entries among the ones
\* the loop has taken, once each and in enumeration order, with the output
\* path given by out; the batch is done only when every entry was taken
CallsFollowEntries(out(_)) ==
    LET sel == SelectSeq(SubSeq(entries, 1, idx), SelectedEntry) IN
    /\ Len(calls) = Len(sel)
    /\ \A j \in 1..Len(sel) :
          /\ calls[j].pdf_path = Join(InputDir, sel[j].name)
          /\ calls[j].output_path = Join(OutputDir, out(sel[j].name))
    /\ pc = "done" => idx = Len(entries)

\* C10 as stated: process is invoked exactly once, in enumeration order, for
\* each entry whose name ends in .pdf (case-insensitive) and for no other
\* entry, with the output path obtained by replacing the file's extension
\* with .json.
C10_AsStated == CallsFollowEntries(ReplaceSuffix)

AmendedOutputName(name) ==
    IF OnlyDotsBeforeSuffix(name) THEN name \o DotJson ELSE ReplaceSuffix(name)

C10_CallsInv == CallsFollowEntries(AmendedOutputName)

\* the program takes its next step whenever it has one
FairSpec == Spec /\ WF_vars(Next)

\* C10 (amended): process is invoked exactly once (no retry) for each entry
\* whose name ends in .pdf (case-insensitive), in enumeration order, and for
\* no other entry; the output path replaces the .pdf suffix by .json, except
\* that a name with nothing but dots before the suffix (".pdf") keeps its
\* whole name and gets .json appended; the batch terminates after the last
\* entry.
C10_CallsOncePerPdfAndTerminates == [](C10_CallsInv) /\ <>(pc = "done")

\* the batch is done after an upper-case "a.PDF" entry and a leading-dot
\* ".pdf" entry were each processed once, to a.json and .pdf.json
C10_Witness ==
    /\ pc = "done"
    /\ Len(calls) = 2
    /\ calls[1].pdf_path.name = <<"a", ".", "P", "D", "F">>
    /\ calls[1].output_path.name = <<"a">> \o DotJson
    /\ calls[2].pdf_path.name = DotPdf
    /\ calls[2].output_path.name = DotPdf \o DotJson
    /\ LastCall.outcome # "running"

====
